---- MODULE Spec2Model ----
(***************************************************************************)
(* solana-safe-math: the SafeMath trait (safe_add, safe_sub, safe_mul,     *)
(* safe_div, safe_pow) implemented by the safe_math! macro for u128, u64,  *)
(* u32, u16 and u8, and the conversion of ErrorCode into                   *)
(* ProgramError::Custom.                                                   *)
(*                                                                         *)
(* TLC's integers are 32 bits wide, so a value of an unsigned type of w    *)
(* bits is held the way the machine holds it: w/8 bytes, least significant *)
(* first (to_le_bytes).  The checked_* primitives the macro calls are      *)
(* modelled by what they do on that representation: the wrapping operation *)
(* of the width together with its carry / borrow / high-half flag.         *)
(*                                                                         *)
(* The claims compare the outcomes with exact arithmetic on natural        *)
(* numbers, held as digit sequences of unbounded length (the Nat*          *)
(* operators), which share no code with the fixed-width operators, and,    *)
(* for operands below 2^15, with the model checker's own integers.         *)
(***************************************************************************)
EXTENDS Integers, Sequences, FiniteSets, TLC

VARIABLES pc, ty, self, arg, op, out, memo, n

vars == <<pc, ty, self, arg, op, out, memo, n>>

-----------------------------------------------------------------------------
(* Bounds of the model.                                                    *)

\* operands 0..MaxSmall are drawn for every width, next to the boundary values
MaxSmall == 7
\* exponents 0..MaxSmallExp are drawn, next to the boundary exponents
MaxSmallExp == 5
\* the longest chain of safe_mul calls a caller runs
MaxChain == 9

-----------------------------------------------------------------------------
(* Fixed-width unsigned integers: w/8 bytes, least significant first.      *)

Radix == 2^8

\* safe_math!(u128); safe_math!(u64); safe_math!(u32); safe_math!(u16); safe_math!(u8);
Widths == {128, 64, 32, 16, 8}

\* the width of the exponent of safe_pow: exp: u32
ExpWidth == 32

NLimbs(w) == w \div 8

\* the sequence <<f[1], ..., f[len]>>, built element by element
RECURSIVE Tabulate(_, _, _, _)
Tabulate(f, i, len, acc) ==
  IF i > len THEN acc ELSE Tabulate(f, i + 1, len, Append(acc, f[i]))

\* the value k (0 <= k < 2^31) as a w-bit unsigned integer, truncated to w bits
Lit(w, k) ==
  Tabulate([i \in 1..NLimbs(w) |-> IF i <= 4 THEN (k \div Radix^(i-1)) % Radix ELSE 0],
           1, NLimbs(w), <<>>)

\* $type::MAX
MAX(w) ==
  Tabulate([i \in 1..NLimbs(w) |-> Radix - 1], 1, NLimbs(w), <<>>)

IsZero(a) == \A i \in 1..Len(a) : a[i] = 0

\* Option<$type>
None == [some |-> FALSE, val |-> <<>>]

Some(v) == [some |-> TRUE, val |-> v]

\* a.overflowing_add(b): the wrapped sum and the carry out of the top byte
RECURSIVE AddLimbs(_, _, _, _, _)
AddLimbs(a, b, i, c, acc) ==
  IF i > Len(a) THEN [val |-> acc, flag |-> c = 1]
  ELSE LET s == a[i] + b[i] + c
       IN AddLimbs(a, b, i + 1, s \div Radix, Append(acc, s % Radix))

overflowing_add(a, b) == AddLimbs(a, b, 1, 0, <<>>)

\* a.overflowing_sub(b): the wrapped difference and the borrow out of the top byte
RECURSIVE SubLimbs(_, _, _, _, _)
SubLimbs(a, b, i, c, acc) ==
  IF i > Len(a) THEN [val |-> acc, flag |-> c = 1]
  ELSE LET d == a[i] - b[i] - c
       IN SubLimbs(a, b, i + 1, IF d < 0 THEN 1 ELSE 0, Append(acc, d % Radix))

overflowing_sub(a, b) == SubLimbs(a, b, 1, 0, <<>>)

\* a < b, compared from the most significant byte down
RECURSIVE LtFrom(_, _, _)
LtFrom(a, b, i) ==
  IF i = 0 THEN FALSE
  ELSE IF a[i] # b[i] THEN a[i] < b[i]
  ELSE LtFrom(a, b, i - 1)

Lt(a, b) == LtFrom(a, b, Len(a))

\* acc + a * d * Radix^(k-1) over 2*Len(a) bytes, d one byte; acc has 2*Len(a) bytes
RECURSIVE MulRow(_, _, _, _, _, _)
MulRow(a, d, k, i, c, acc) ==
  IF k + i - 1 > Len(acc) THEN acc
  ELSE LET x == IF i <= Len(a) THEN a[i] * d ELSE 0
           s == acc[k + i - 1] + x + c
       IN MulRow(a, d, k, i + 1, s \div Radix, [acc EXCEPT ![k + i - 1] = s % Radix])

RECURSIVE MulRows(_, _, _, _)
MulRows(a, b, k, acc) ==
  IF k > Len(b) THEN acc
  ELSE MulRows(a, b, k + 1, IF b[k] = 0 THEN acc ELSE MulRow(a, b[k], k, 1, 0, acc))

\* the full product of a and b, twice as wide as the operands
widening_mul(a, b) == MulRows(a, b, 1, Lit(16 * Len(a), 0))

\* a.overflowing_mul(b): the low half of the product, and whether the high half is not zero
overflowing_mul(a, b) ==
  LET p == widening_mul(a, b)
      l == Len(a)
  IN [val |-> SubSeq(p, 1, l), flag |-> \E i \in (l + 1)..(2 * l) : p[i] # 0]

\* a << 1 and a >> 1 within the width
Shl1(a, bit) ==
  Tabulate([i \in 1..Len(a) |->
              ((a[i] * 2) % Radix) + (IF i = 1 THEN bit ELSE a[i-1] \div (Radix \div 2))],
           1, Len(a), <<>>)

Shr1(a) ==
  Tabulate([i \in 1..Len(a) |->
              (a[i] \div 2) + (IF i = Len(a) THEN 0 ELSE (a[i+1] % 2) * (Radix \div 2))],
           1, Len(a), <<>>)

\* one byte d of the dividend, from its top bit (k = 8) down: the remainder r takes
\* the bit in, and b is subtracted when it fits; q collects the quotient's bits
RECURSIVE DivBits(_, _, _, _, _)
DivBits(d, b, k, q, r) ==
  IF k = 0 THEN [q |-> q, r |-> r]
  ELSE LET top == r[Len(r)] \div (Radix \div 2)
           r1  == Shl1(r, (d \div 2^(k - 1)) % 2)
       IN IF top = 1 \/ ~Lt(r1, b)
          THEN DivBits(d, b, k - 1, q + 2^(k - 1), overflowing_sub(r1, b).val)
          ELSE DivBits(d, b, k - 1, q, r1)

RECURSIVE DivBytes(_, _, _, _, _)
DivBytes(a, b, j, q, r) ==
  IF j = 0 THEN [quot |-> q, rem |-> r]
  ELSE LET s == DivBits(a[j], b, 8, 0, r)
       IN IF s.q = 0 THEN DivBytes(a, b, j - 1, q, s.r)
          ELSE DivBytes(a, b, j - 1, [q EXCEPT ![j] = s.q], s.r)

\* a slip: the quotient is rounded up when the division leaves a remainder
udivmod_round_up(a, b) ==
  LET d == DivBytes(a, b, Len(a), Lit(8 * Len(a), 0), Lit(8 * Len(a), 0))
  IN IF IsZero(d.rem) THEN d
     ELSE [quot |-> overflowing_add(d.quot, Lit(8 * Len(a), 1)).val, rem |-> d.rem]

\* a / b and a % b for b # 0: restoring division, one bit of a at a time from the top
udivmod(a, b) == DivBytes(a, b, Len(a), Lit(8 * Len(a), 0), Lit(8 * Len(a), 0))

-----------------------------------------------------------------------------
(* The checked primitives of the integer types, which the macro calls.     *)

\* a slip: the wrapped sum is returned whatever the carry (wrapping_add)
checked_add_wrapping(a, b) == Some(overflowing_add(a, b).val)

checked_add(a, b) ==
  LET r == overflowing_add(a, b)
  IN IF r.flag THEN None ELSE Some(r.val)

\* a slip: the wrapped difference is returned whatever the borrow (wrapping_sub)
checked_sub_wrapping(a, b) == Some(overflowing_sub(a, b).val)

checked_sub(a, b) ==
  LET r == overflowing_sub(a, b)
  IN IF r.flag THEN None ELSE Some(r.val)

checked_mul(a, b) ==
  LET r == overflowing_mul(a, b)
  IN IF r.flag THEN None ELSE Some(r.val)

checked_div(a, b) ==
  IF IsZero(b) THEN None ELSE Some(udivmod(a, b).quot)

\* a slip: the base is squared once more after the last bit of the exponent
\*   while exp > 0 { if (exp & 1) == 1 { acc = acc.checked_mul(base)? }
\*                   exp /= 2; base = base.checked_mul(base)? }
\*   acc
RECURSIVE PowLoop_square_last(_, _, _)
PowLoop_square_last(base, acc, exp) ==
  IF IsZero(exp) THEN Some(acc)
  ELSE LET odd == exp[1] % 2 = 1
           a1  == IF odd THEN checked_mul(acc, base) ELSE Some(acc)
           b1  == checked_mul(base, base)
       IN IF ~a1.some THEN None
          ELSE IF ~b1.some THEN None
          ELSE PowLoop_square_last(b1.val, a1.val, Shr1(exp))

\* the loop of checked_pow: exponentiation by squaring, every product checked
\*   while exp > 1 { if (exp & 1) == 1 { acc = acc.checked_mul(base)? }
\*                   exp /= 2; base = base.checked_mul(base)? }
\*   acc.checked_mul(base)
RECURSIVE PowLoop(_, _, _)
PowLoop(base, acc, exp) ==
  IF Lt(Lit(ExpWidth, 1), exp)
  THEN LET odd == exp[1] % 2 = 1
           a1  == IF odd THEN checked_mul(acc, base) ELSE Some(acc)
           b1  == checked_mul(base, base)
       IN IF ~a1.some THEN None
          ELSE IF ~b1.some THEN None
          ELSE PowLoop(b1.val, a1.val, Shr1(exp))
  ELSE checked_mul(acc, base)

\* a slip: the exponent 0 is not told apart, so the loop's last product gives a^0 = a
checked_pow_no_zero_case(a, exp) == PowLoop(a, Lit(8 * Len(a), 1), exp)

checked_pow(a, exp) ==
  IF IsZero(exp) THEN Some(Lit(8 * Len(a), 1)) ELSE PowLoop(a, Lit(8 * Len(a), 1), exp)

-----------------------------------------------------------------------------
(* ErrorCode and its conversion into ProgramError.                         *)

\* pub enum ErrorCode { Overflow, Underflow, DivisionByZero }, in declaration order
ErrorCode == <<"Overflow", "Underflow", "DivisionByZero">>

\* a slip: the position is counted from one
AsU32_one_based(e) == CHOOSE i \in 1..Len(ErrorCode) : ErrorCode[i] = e

\* e as u32: the discriminant of a variant is its zero-based position
AsU32(e) == (CHOOSE i \in 1..Len(ErrorCode) : ErrorCode[i] = e) - 1

\* ProgramError::Custom(code)
Custom(code) == [variant |-> "Custom", code |-> code]

\* impl From<ErrorCode> for ProgramError
from(e) == Custom(AsU32(e))

\* StdResult<Self::Output, ProgramError>
Ok(v) == [tag |-> "Ok", val |-> v]

Err(e) == [tag |-> "Err", err |-> e]

\* no result yet, and no call kept
NoResult == [tag |-> "None"]

NoCall == [op |-> "none"]

-----------------------------------------------------------------------------
(* impl SafeMath for $type                                                 *)

\* a slip: the sum is kept in shared state, and a later call adds to what an earlier
\* call left there instead of to its receiver
safe_add_accumulating(a, rhs) ==
  LET acc == IF memo # NoCall /\ memo.out.tag = "Ok" /\ Len(memo.out.val) = Len(a)
             THEN memo.out.val ELSE a
      r   == checked_add(acc, rhs)
  IN IF r.some THEN Ok(r.val) ELSE Err(from("Overflow"))

safe_add(a, rhs) ==
  LET r == checked_add(a, rhs)
  IN IF r.some THEN Ok(r.val) ELSE Err(from("Overflow"))

safe_sub(a, rhs) ==
  LET r == checked_sub(a, rhs)
  IN IF r.some THEN Ok(r.val) ELSE Err(from("Underflow"))

\* the other convention: a product that does not fit is reported as Overflow
safe_mul_overflow_kind(a, rhs) ==
  LET r == checked_mul(a, rhs)
  IN IF r.some THEN Ok(r.val) ELSE Err(from("Overflow"))

safe_mul(a, rhs) ==
  LET r == checked_mul(a, rhs)
  IN IF r.some THEN Ok(r.val) ELSE Err(from("Underflow"))

\* a slip: self / rhs without the check, which panics on a zero divisor
safe_div_unchecked(a, rhs) ==
  IF IsZero(rhs) THEN [tag |-> "Panic"] ELSE Ok(udivmod(a, rhs).quot)

safe_div(a, rhs) ==
  LET r == checked_div(a, rhs)
  IN IF r.some THEN Ok(r.val) ELSE Err(from("DivisionByZero"))

safe_pow(a, exp) ==
  LET r == checked_pow(a, exp)
  IN IF r.some THEN Ok(r.val) ELSE Err(from("Overflow"))

-----------------------------------------------------------------------------
(* The caller: it evaluates the operands of a call, makes the call and     *)
(* takes the result, as in the crate's example (val.safe_add(amount)?).    *)
(*   pc    "idle" | "ready" (operands evaluated) | "done" (call returned)  *)
(*         | "chain" (a run of acc = acc.safe_mul(base)? calls)            *)
(*   ty    the width of $type; self, arg: the receiver and rhs / exp       *)
(*   op    the method called; out: its result                              *)
(*   memo  one earlier call and its result, kept by the observer           *)
(*   n     the number of safe_mul calls made by the chain                  *)

Ops == {"safe_add", "safe_sub", "safe_mul", "safe_div", "safe_pow"}

\* 2^k as a w-bit value, k < w
Pow2(w, k) ==
  Tabulate([i \in 1..NLimbs(w) |-> IF i = (k \div 8) + 1 THEN 2^(k % 8) ELSE 0],
           1, NLimbs(w), <<>>)

\* the operands drawn for width w: the small values and the values around the
\* boundaries of the width (its square root, its top bit, MAX)
Vals(w) ==
  {Lit(w, k) : k \in 0..MaxSmall}
    \cup {Pow2(w, w \div 2), overflowing_sub(Pow2(w, w \div 2), Lit(w, 1)).val,
          Pow2(w, w - 1), overflowing_sub(MAX(w), Lit(w, 1)).val, MAX(w)}

\* the exponents drawn for width w: the small ones, those around the width, and
\* the largest values of u32
Exps(w) ==
  {Lit(ExpWidth, k) : k \in (0..MaxSmallExp) \cup {w \div 2, w - 1, w}}
    \cup {Pow2(ExpWidth, ExpWidth - 1), MAX(ExpWidth)}

Args(w, o) == IF o = "safe_pow" THEN Exps(w) ELSE Vals(w)

\* the operands of the runs that keep an earlier call
HistVals(w) == {Lit(w, 0), MAX(w)}

HistArgs(w, o) == IF o = "safe_pow" THEN {Lit(ExpWidth, 0), Lit(ExpWidth, 2)} ELSE HistVals(w)

Init ==
  /\ pc = "idle"
  /\ ty = 8
  /\ self = Lit(8, 0)
  /\ arg = Lit(8, 0)
  /\ op = "none"
  /\ out = NoResult
  /\ memo = NoCall
  /\ n = 0

\* the caller evaluates the receiver and the argument of a call
Call ==
  /\ pc = "idle"
  /\ \E w \in Widths, o \in Ops :
       \E a \in Vals(w), b \in Args(w, o) :
         /\ ty' = w
         /\ op' = o
         /\ self' = a
         /\ arg' = b
  /\ pc' = "ready"
  /\ UNCHANGED <<out, memo, n>>

CallHist ==
  /\ pc = "idle"
  /\ \E w \in Widths, o \in Ops :
       \E a \in HistVals(w), b \in HistArgs(w, o) :
         /\ ty' = w
         /\ op' = o
         /\ self' = a
         /\ arg' = b
  /\ pc' = "ready"
  /\ UNCHANGED <<out, memo, n>>

\* fn safe_add(&self, rhs: Self::Output): self is borrowed, rhs is the callee's copy
SafeAdd ==
  /\ pc = "ready" /\ op = "safe_add"
  /\ out' = safe_add(self, arg)
  /\ pc' = "done"
  /\ UNCHANGED <<ty, self, arg, op, memo, n>>

SafeSub ==
  /\ pc = "ready" /\ op = "safe_sub"
  /\ out' = safe_sub(self, arg)
  /\ pc' = "done"
  /\ UNCHANGED <<ty, self, arg, op, memo, n>>

SafeMul ==
  /\ pc = "ready" /\ op = "safe_mul"
  /\ out' = safe_mul(self, arg)
  /\ pc' = "done"
  /\ UNCHANGED <<ty, self, arg, op, memo, n>>

SafeDiv ==
  /\ pc = "ready" /\ op = "safe_div"
  /\ out' = safe_div(self, arg)
  /\ pc' = "done"
  /\ UNCHANGED <<ty, self, arg, op, memo, n>>

SafePow ==
  /\ pc = "ready" /\ op = "safe_pow"
  /\ out' = safe_pow(self, arg)
  /\ pc' = "done"
  /\ UNCHANGED <<ty, self, arg, op, memo, n>>

\* the caller has used the result; nothing of the call is left
Return ==
  /\ pc = "done"
  /\ pc' = "idle"
  /\ ty' = 8
  /\ self' = Lit(8, 0)
  /\ arg' = Lit(8, 0)
  /\ op' = "none"
  /\ out' = NoResult
  /\ n' = 0
  /\ UNCHANGED memo

\* the observer keeps the call that returned, if it keeps none yet
Remember ==
  /\ pc = "done"
  /\ memo = NoCall
  /\ memo' = [op |-> op, ty |-> ty, self |-> self, arg |-> arg, out |-> out]
  /\ pc' = "idle"
  /\ ty' = 8
  /\ self' = Lit(8, 0)
  /\ arg' = Lit(8, 0)
  /\ op' = "none"
  /\ out' = NoResult
  /\ n' = 0

\* let mut acc = 1; then acc = acc.safe_mul(base)? again and again
StartChain ==
  /\ pc = "idle"
  /\ \E w \in Widths :
       \E a \in Vals(w) :
         /\ ty' = w
         /\ self' = a
         /\ arg' = a
         /\ out' = Ok(Lit(w, 1))
  /\ op' = "safe_mul"
  /\ n' = 0
  /\ pc' = "chain"
  /\ UNCHANGED memo

\* one more acc = acc.safe_mul(base)?: a failure is returned by ? and stays the result
ChainStep ==
  /\ pc = "chain"
  /\ n < MaxChain
  /\ out' = IF out.tag = "Ok" THEN safe_mul(out.val, arg) ELSE out
  /\ n' = n + 1
  /\ UNCHANGED <<pc, ty, self, arg, op, memo>>

EndChain ==
  /\ pc = "chain"
  /\ pc' = "idle"
  /\ ty' = 8
  /\ self' = Lit(8, 0)
  /\ arg' = Lit(8, 0)
  /\ op' = "none"
  /\ out' = NoResult
  /\ n' = 0
  /\ UNCHANGED memo

Next ==
  \/ Call
  \/ SafeAdd
  \/ SafeSub
  \/ SafeMul
  \/ SafeDiv
  \/ SafePow
  \/ Return
  \/ StartChain
  \/ ChainStep
  \/ EndChain

Spec == Init /\ [][Next]_vars

NextHist ==
  \/ CallHist
  \/ SafeAdd
  \/ SafeSub
  \/ SafeMul
  \/ SafeDiv
  \/ SafePow
  \/ Return
  \/ Remember

SpecHist == Init /\ [][NextHist]_vars

-----------------------------------------------------------------------------
(* Exact arithmetic on natural numbers, for stating the claims.  A natural *)
(* number is a sequence of base-256 digits, least significant first, of    *)
(* any length (leading zeros allowed).  Nothing here has a width, and      *)
(* nothing here is shared with the fixed-width operators above: sums use   *)
(* carry look-ahead, products use column sums.                             *)

Digit(x, i) == IF i <= Len(x) THEN x[i] ELSE 0

MaxLen(x, y) == IF Len(x) >= Len(y) THEN Len(x) ELSE Len(y)

NatEq(x, y) == \A i \in 1..MaxLen(x, y) : Digit(x, i) = Digit(y, i)

NatLt(x, y) ==
  \E i \in 1..MaxLen(x, y) :
    /\ Digit(x, i) < Digit(y, i)
    /\ \A k \in (i + 1)..MaxLen(x, y) : Digit(x, k) = Digit(y, k)

NatLe(x, y) == NatEq(x, y) \/ NatLt(x, y)

\* a carry enters digit i of x + y when some lower digit generates one and every
\* digit between propagates it
NatCarry(x, y, i) ==
  \E j \in 1..(i - 1) :
    /\ Digit(x, j) + Digit(y, j) >= Radix
    /\ \A k \in (j + 1)..(i - 1) : Digit(x, k) + Digit(y, k) = Radix - 1

NatAdd(x, y) ==
  Tabulate([i \in 1..(MaxLen(x, y) + 1) |->
              (Digit(x, i) + Digit(y, i) + (IF NatCarry(x, y, i) THEN 1 ELSE 0)) % Radix],
           1, MaxLen(x, y) + 1, <<>>)

\* the sum of the digit products x[i] * y[k+1-i] that land in column k
RECURSIVE NatColumn(_, _, _, _)
NatColumn(x, y, k, i) ==
  IF i > k THEN 0 ELSE Digit(x, i) * Digit(y, k + 1 - i) + NatColumn(x, y, k, i + 1)

RECURSIVE NatCarryOut(_, _, _, _, _)
NatCarryOut(x, y, k, c, acc) ==
  IF k > Len(x) + Len(y) THEN acc
  ELSE LET t == NatColumn(x, y, k, 1) + c
       IN NatCarryOut(x, y, k + 1, t \div Radix, Append(acc, t % Radix))

NatMul(x, y) == NatCarryOut(x, y, 1, 0, <<>>)

\* the digits of x up to its highest digit that is not zero
NatTrim(x) ==
  LET top == {i \in 1..Len(x) : x[i] # 0}
  IN IF top = {} THEN <<>> ELSE SubSeq(x, 1, CHOOSE i \in top : \A j \in top : j <= i)

\* a power that exceeds the cap it is computed under
NatOver == [over |-> TRUE, val |-> <<>>]

NatExact(x) == [over |-> FALSE, val |-> x]

\* p * x^e by e products, stopping with NatOver once a power exceeds cap
\* (the powers of x >= 1 never decrease, so every later one exceeds it too)
RECURSIVE NatPowRun(_, _, _, _)
NatPowRun(p, x, e, cap) ==
  IF e = 0 \/ p.over THEN p
  ELSE LET q == NatTrim(NatMul(p.val, x))
       IN NatPowRun(IF NatLe(q, cap) THEN NatExact(q) ELSE NatOver, x, e - 1, cap)

RECURSIVE NatPowBlocks(_, _, _, _)
NatPowBlocks(p, x, e, cap) ==
  IF e = 0 \/ p.over THEN p
  ELSE LET k == IF e < 16 THEN e ELSE 16
       IN NatPowBlocks(NatPowRun(p, x, k, cap), x, e - k, cap)

\* x^e for an exponent digit sequence e, capped at MAX(w); for x >= 2 and e > w the
\* power is at least 2^(w+1), so it exceeds the cap without being computed
NatPowCapped(x, e, w) ==
  IF NatEq(e, <<>>) THEN NatExact(<<1>>)
  ELSE IF NatLe(x, <<1>>) THEN NatExact(NatTrim(x))
  ELSE IF NatLt(<<w>>, e) THEN NatOver
  ELSE NatPowBlocks(NatExact(<<1>>), x, e[1], MAX(w))

\* operands below 2^15 are also compared through the model checker's own integers
Small(x) == \A i \in 2..Len(x) : IF i = 2 THEN x[i] < Radix \div 2 ELSE x[i] = 0

ToInt(x) == Digit(x, 1) + Radix * Digit(x, 2)

\* v < 2^31 is a value of the w-bit type
Fits(w, v) == w > 16 \/ v < 2^w

-----------------------------------------------------------------------------
(* The claims.                                                             *)

\* the result is a value of the width w: w/8 bytes
IsValue(w, v) == Len(v) = NLimbs(w) /\ \A i \in 1..Len(v) : v[i] \in 0..(Radix - 1)

Returned(o) == pc = "done" /\ op = o

\* C1: safe_mul(a, b) returns Ok(a*b) when a*b <= 2^W-1 and otherwise fails with
\* the Overflow kind (host error code 0).
C1_MulFailsWithOverflow ==
  Returned("safe_mul") =>
    LET p == NatMul(self, arg)
    IN IF NatLe(p, MAX(ty))
       THEN out.tag = "Ok" /\ IsValue(ty, out.val) /\ NatEq(out.val, p)
       ELSE out = Err(Custom(0))

\* C2: safe_add(a, b) returns Ok(a+b), never a wrapped value, exactly when
\* a+b <= 2^W-1, and fails with Overflow (code 0) exactly when a+b > 2^W-1;
\* safe_add(MAX, 1) fails with Overflow.
C2_AddExactOrOverflow ==
  Returned("safe_add") =>
    LET s == NatAdd(self, arg)
    IN /\ IF NatLe(s, MAX(ty))
          THEN out.tag = "Ok" /\ IsValue(ty, out.val) /\ NatEq(out.val, s)
          ELSE out = Err(Custom(0))
       /\ (self = MAX(ty) /\ arg = Lit(ty, 1)) => out = Err(Custom(0))
       /\ (Small(self) /\ Small(arg)) =>
            out = IF Fits(ty, ToInt(self) + ToInt(arg))
                  THEN Ok(Lit(ty, ToInt(self) + ToInt(arg)))
                  ELSE Err(Custom(0))

C2_Witness ==
  /\ Returned("safe_add") /\ ty = 128
  /\ self = MAX(128) /\ arg = Lit(128, 1)
  /\ out.tag = "Err"

\* C3: safe_sub(a, b) returns Ok(a-b) exactly when a >= b and fails with Underflow
\* (code 1) exactly when a < b; safe_sub(0, 1) fails with Underflow and
\* safe_sub(a, a) = Ok(0).
C3_SubExactOrUnderflow ==
  Returned("safe_sub") =>
    /\ IF NatLe(arg, self)
       THEN out.tag = "Ok" /\ IsValue(ty, out.val) /\ NatEq(NatAdd(out.val, arg), self)
       ELSE out = Err(Custom(1))
    /\ (IsZero(self) /\ arg = Lit(ty, 1)) => out = Err(Custom(1))
    /\ (self = arg) => out = Ok(Lit(ty, 0))
    /\ (Small(self) /\ Small(arg)) =>
         out = IF ToInt(self) >= ToInt(arg)
               THEN Ok(Lit(ty, ToInt(self) - ToInt(arg)))
               ELSE Err(Custom(1))

C3_Witness ==
  /\ Returned("safe_sub") /\ ty = 64
  /\ IsZero(self) /\ arg = Lit(64, 1)
  /\ out.tag = "Err"

\* C4: safe_div(a, b) returns Ok(floor(a/b)) when b # 0, a result that is <= a, so
\* division never reports an overflow; it fails with DivisionByZero (code 2) when
\* b = 0, for every a including 0.
C4_DivFloorOrDivisionByZero ==
  Returned("safe_div") =>
    /\ IF IsZero(arg)
       THEN out = Err(Custom(2))
       ELSE /\ out.tag = "Ok" /\ IsValue(ty, out.val)
            /\ NatLe(NatMul(out.val, arg), self)
            /\ NatLt(self, NatAdd(NatMul(out.val, arg), arg))
            /\ NatLe(out.val, self)
    /\ (Small(self) /\ Small(arg) /\ ~IsZero(arg)) =>
         out = Ok(Lit(ty, ToInt(self) \div ToInt(arg)))

C4_Witness ==
  /\ Returned("safe_div") /\ ty = 128
  /\ self = MAX(128) /\ arg = Lit(128, 3)
  /\ out.tag = "Ok" /\ ~IsZero(out.val)

\* C5: safe_pow(a, exp), exp a u32 whatever the width, returns Ok(a^exp) exactly
\* when a^exp <= 2^W-1 and fails with Overflow (code 0) otherwise;
\* safe_pow(a, 0) = Ok(1) for every a including 0, and safe_pow(MAX, 2) fails
\* with Overflow.
C5_PowExactOrOverflow ==
  Returned("safe_pow") =>
    LET p == NatPowCapped(self, arg, ty)
    IN /\ Len(arg) = NLimbs(ExpWidth)
       /\ IF p.over
          THEN out = Err(Custom(0))
          ELSE out.tag = "Ok" /\ IsValue(ty, out.val) /\ NatEq(out.val, p.val)
       /\ IsZero(arg) => out = Ok(Lit(ty, 1))
       /\ (self = MAX(ty) /\ arg = Lit(ExpWidth, 2)) => out = Err(Custom(0))
       /\ (Small(self) /\ Small(arg) /\ ToInt(self) \in 1..15 /\ ToInt(arg) \in 0..7) =>
            out = IF Fits(ty, ToInt(self) ^ ToInt(arg))
                  THEN Ok(Lit(ty, ToInt(self) ^ ToInt(arg)))
                  ELSE Err(Custom(0))

C5_Witness ==
  /\ Returned("safe_pow") /\ ty = 128
  /\ self = Lit(128, 2) /\ arg = Lit(ExpWidth, 127)
  /\ out = Ok(Pow2(128, 127))

\* C6: the conversion of ErrorCode into ProgramError::Custom maps each kind to its
\* zero-based ordinal, Overflow -> 0, Underflow -> 1, DivisionByZero -> 2; distinct
\* kinds get distinct codes and the codes are exactly {0, 1, 2}.  The failures the
\* operations return carry these codes.
C6_OrdinalCodes ==
  /\ from("Overflow") = Custom(0)
  /\ from("Underflow") = Custom(1)
  /\ from("DivisionByZero") = Custom(2)
  /\ \A i, j \in 1..Len(ErrorCode) : from(ErrorCode[i]) = from(ErrorCode[j]) => i = j
  /\ {from(ErrorCode[i]).code : i \in 1..Len(ErrorCode)} = {0, 1, 2}
  /\ (pc = "done" /\ out.tag = "Err") =>
       \E i \in 1..Len(ErrorCode) : out.err = from(ErrorCode[i]) /\ out.err = Custom(i - 1)

C6_Witness ==
  /\ Returned("safe_div")
  /\ out = Err(Custom(2))

\* C7: every call of the five operations, on every width and every operand pair in
\* range, returns: either a success value in [0, 2^W-1] or a failure of one of the
\* three kinds (code in {0, 1, 2}); there is no panic and no other outcome.
C7_Total ==
  /\ pc = "ready" =>
       /\ op \in Ops /\ ty \in Widths
       /\ IsValue(ty, self) /\ IsValue(IF op = "safe_pow" THEN ExpWidth ELSE ty, arg)
  /\ pc = "done" =>
       /\ out.tag \in {"Ok", "Err"}
       /\ out.tag = "Ok" => IsValue(ty, out.val)
       /\ out.tag = "Err" => out.err \in {Custom(c) : c \in 0..2}

C7_Witness ==
  /\ Returned("safe_div") /\ ty = 32
  /\ IsZero(self) /\ IsZero(arg)
  /\ out.tag = "Err"

C9_MulFailsWithUnderflow ==
  Returned("safe_mul") =>
    /\ (out.tag = "Err") = NatLt(MAX(ty), NatMul(self, arg))
    /\ out.tag = "Err" =>
         /\ out = Err(Custom(1))
         /\ out = safe_sub(Lit(ty, 0), Lit(ty, 1))
    /\ (self = MAX(ty) /\ arg = Lit(ty, 2)) => out = Err(Custom(1))

C9_Witness ==
  /\ Returned("safe_mul") /\ ty = 128
  /\ self = MAX(128) /\ arg = Lit(128, 2)
  /\ out = Err(Custom(1))

\* C10: starting from acc = 1, n calls acc = acc.safe_mul(a)? all succeed exactly
\* when safe_pow(a, n) succeeds, and then both give the same value; when
\* safe_pow(a, n) fails, the chain has failed at some step.
C10_PowAgreesWithMulChain ==
  pc = "chain" =>
    LET p == safe_pow(self, Lit(ExpWidth, n))
    IN /\ (out.tag = "Ok") = (p.tag = "Ok")
       /\ p.tag = "Ok" => out = p
       /\ out.tag \in {"Ok", "Err"}

C10_Witness ==
  /\ pc = "chain" /\ ty = 8
  /\ self = Lit(8, 2) /\ n = 8
  /\ out.tag = "Err"
  /\ safe_pow(self, Lit(ExpWidth, 7)) = Ok(Lit(8, 128))

====
